---- MODULE Spec2Model ----
(***************************************************************************)
(* QuantCoach (src/app.py): the Streamlit session of the tutoring chat.    *)
(*                                                                         *)
(* The state is what survives between two script runs: the two sidebar     *)
(* selectboxes, st.session_state.previous_topic, st.session_state.messages *)
(* and the Continue buttons the last run rendered.  Every user interaction *)
(* is one action: the script run it triggers, the handler it reaches, and  *)
(* the run that the handler's st.rerun() starts.  Texts are TLA+ strings,  *)
(* so endswith / rstrip / the f-string templates are computed on the       *)
(* characters as the Python code computes them.                            *)
(***************************************************************************)
EXTENDS Integers, Sequences, FiniteSets, TLC

VARIABLES
    selected_path,     \* value of the "Choose a learning path:" selectbox
    selected_topic,    \* value of the "Choose a topic to explore:" selectbox
    previous_topic,    \* st.session_state.previous_topic
    messages,          \* st.session_state.messages
    continue_buttons,  \* indices i whose "continue_{i}" button is on the page
    api_calls,         \* calls to get_ai_response made by the last action
    event              \* the handler the last action ran

vars == <<selected_path, selected_topic, previous_topic, messages,
          continue_buttons, api_calls, event>>

----------------------------------------------------------------------------
(* Bounds *)

\* longest transcript explored; the history window (4) is exceeded at 5
MaxMessages == 6
\* longest completion text explored by the classification specification
MaxTextLen == 4

----------------------------------------------------------------------------
(* Python string and list primitives *)

endswith(s, suffix) ==
    /\ Len(s) >= Len(suffix)
    /\ SubSeq(s, Len(s) - Len(suffix) + 1, Len(s)) = suffix

Whitespace == {" ", "\n", "\t"}

RECURSIVE rstrip(_)
rstrip(s) ==
    IF Len(s) > 0 /\ SubSeq(s, Len(s), Len(s)) \in Whitespace
    THEN rstrip(SubSeq(s, 1, Len(s) - 1))
    ELSE s

\* ', '.join(topics)
RECURSIVE join(_)
join(names) ==
    IF Len(names) = 0 THEN ""
    ELSE IF Len(names) = 1 THEN names[1]
    ELSE names[1] \o ", " \o join(Tail(names))

\* the elements of a list
Elems(seq) == {seq[i] : i \in 1..Len(seq)}

----------------------------------------------------------------------------
(* The catalog and the selectbox options *)

NoPath == "Select a path..."
NoTopic == "Select a topic..."

learning_paths ==
    << [name |-> "Probability & Statistics",
        topics |-> <<"Events and probabilities">>],
       [name |-> "Machine Learning",
        topics |-> <<"Regression">>] >>

path_options == {NoPath} \cup {learning_paths[i].name : i \in 1..Len(learning_paths)}

\* the topic names of the first path whose name is `path` (<<>> if none)
path_topics(path) ==
    LET hits == {i \in 1..Len(learning_paths) : learning_paths[i].name = path}
    IN  IF hits = {} THEN <<>>
        ELSE learning_paths[CHOOSE i \in hits : \A j \in hits : i <= j].topics

topic_options(path) == {NoTopic} \cup Elems(path_topics(path))

----------------------------------------------------------------------------
(* get_ai_response *)

PERSONA == "You are QuantCoach, an AI educational assistant specializing in quantitative trading and finance education."
STYLE == "Keep responses CONSISTENT and moderately sized - aim for exactly 2-3 complete sentences."
CONTINUATION_TEXT == "IMPORTANT: You are continuing from an incomplete sentence. Complete the exact sentence that was cut off, then continue with 1-2 more complete sentences."

context_info(context, path, topic) ==
    (IF context # "" THEN "Current learning context: " \o context \o "\n" ELSE "")
    \o (IF path # "" /\ path # NoPath
        THEN "User has selected learning path: " \o path \o "\n" ELSE "")
    \o (IF topic # "" /\ topic # NoTopic
        THEN "User is focusing on topic: " \o topic \o "\n" ELSE "")

system_prompt(context, path, topic, is_continuation) ==
    PERSONA \o "\n\n" \o context_info(context, path, topic) \o "\n\n"
    \o (IF is_continuation THEN CONTINUATION_TEXT ELSE "") \o "\n\n" \o STYLE

HistoryWindow == 4

\* a bug: the first four turns instead of the last four
recent_history_first(chat_history) ==
    IF Len(chat_history) > HistoryWindow
    THEN SubSeq(chat_history, 1, HistoryWindow)
    ELSE chat_history

\* chat_history[-4:] if len(chat_history) > 4 else chat_history
recent_history(chat_history) ==
    IF Len(chat_history) > HistoryWindow
    THEN SubSeq(chat_history, Len(chat_history) - HistoryWindow + 1, Len(chat_history))
    ELSE chat_history

\* a bug: the whole history is sent, not the window
build_messages_all(prompt_text, chat_history, message) ==
    <<[role |-> "system", content |-> prompt_text]>>
    \o chat_history
    \o <<[role |-> "user", content |-> message]>>

\* the messages list handed to client.chat.completions.create
build_messages(prompt_text, chat_history, message) ==
    <<[role |-> "system", content |-> prompt_text]>>
    \o recent_history(chat_history)
    \o <<[role |-> "user", content |-> message]>>

ErrorPrefix == "Error: Unable to get AI response."

\* a bug: no except clause, the exception reaches the caller
except_Exception_propagates(e) ==
    [raised |-> TRUE, value |-> ""]

\* a bug: the failure detail replaces the sentinel
except_Exception_bare(e) ==
    [raised |-> FALSE, value |-> e]

\* except Exception as e: return f"Error: Unable to get AI response. {str(e)}"
except_Exception(e) ==
    [raised |-> FALSE, value |-> ErrorPrefix \o " " \o e]

\* What the completion service does with one request: it returns a text, or
\* the client raises an exception whose str() is `text`.
Completions == {"Variance measures spread.", "Probability is the..."}
Failures == {"Connection error."}
Outcomes == [ok : {TRUE}, text : Completions] \cup [ok : {FALSE}, text : Failures]

\* One call.  `sent` is the request, `chat_history` the caller's list as the
\* call leaves it, `raised` whether an exception reaches the caller.
get_ai_response(message, context, path, topic, chat_history, is_continuation, o) ==
    LET sent == build_messages(system_prompt(context, path, topic, is_continuation),
                               chat_history, message)
        ret  == IF o.ok THEN [raised |-> FALSE, value |-> o.text]
                ELSE except_Exception(o.text)
    IN  [raised |-> ret.raised,
         value |-> ret.value,
         chat_history |-> chat_history,
         call |-> [chat_history |-> chat_history, sent |-> sent,
                   failed |-> ~o.ok,
                   result |-> IF ret.raised THEN "" ELSE ret.value]]

----------------------------------------------------------------------------
(* The request templates *)

explain_question(topic, path) ==
    "Please briefly explain " \o topic \o " in the context of " \o path \o "."

more_question(topic) ==
    "Can you teach me more advanced concepts about " \o topic
    \o "? Give me deeper insights and practical applications."

quiz_mc_question(topic, path) ==
    "Give me a multiple choice quiz question about " \o topic
    \o " in the context of " \o path
    \o ". Provide one question with 4 options (A, B, C, D) and indicate the correct answer."

quiz_sa_question(topic, path) ==
    "Give me a short answer quiz question about " \o topic
    \o " in the context of " \o path
    \o ". Ask one thought-provoking question that requires a brief explanation."

continuation_prompt(incomplete_message) ==
    "Please complete this incomplete sentence and continue: \""
    \o incomplete_message \o "\""

\* context = f"Learning path: {selected_path}, <label>: {selected_topic}"
topic_context(path, label, topic) ==
    "Learning path: " \o path \o ", " \o label \o ": " \o topic

\* the context of the chat input and of Continue: the path's topic list
path_context(path) ==
    IF path # NoPath /\ path \in path_options
    THEN "Learning path: " \o path \o ". Available topics: " \o join(path_topics(path))
    ELSE ""

----------------------------------------------------------------------------
(* The Continue button *)

TerminalPunctuation == {".", "!", "?", ":", ";"}

\* a bug: the terminal punctuation is looked for without rstrip()
is_incomplete_unstripped(content) ==
    \/ endswith(content, "...")
    \/ endswith(content, "\"")
    \/ endswith(content, "(")
    \/ ~ \E punct \in TerminalPunctuation : endswith(content, punct)


is_incomplete(content) ==
    \/ endswith(content, "...")
    \/ endswith(content, "\"")
    \/ endswith(content, "(")
    \/ ~ \E punct \in TerminalPunctuation : endswith(rstrip(content), punct)

\* a bug: the "only last message" test is missing
continue_offered_any(msgs, i) ==
    /\ msgs[i].role = "assistant"
    /\ is_incomplete(msgs[i].content)

\* the button "continue_{i}" is rendered for message i of msgs (1-based here)
continue_offered(msgs, i) ==
    /\ msgs[i].role = "assistant"
    /\ is_incomplete(msgs[i].content)
    /\ i = Len(msgs)

\* the chat area as one run renders it
render(msgs) == {i \in 1..Len(msgs) : continue_offered(msgs, i)}

----------------------------------------------------------------------------
(* The handlers.  Each returns the session as the handler leaves it:         *)
(* messages, previous_topic, the calls it made, and whether an exception    *)
(* ended the run before its st.rerun().                                      *)

user_turn(content) == [role |-> "user", content |-> content]
assistant_turn(content) == [role |-> "assistant", content |-> content]

\* a bug: the request is sent but not recorded as a user turn
turn_cycle_no_user(msgs, message, context, path, topic, o) ==
    LET r == get_ai_response(message, context, path, topic, msgs, FALSE, o)
    IN  [messages |-> IF r.raised THEN r.chat_history
                      ELSE Append(r.chat_history, assistant_turn(r.value)),
         api_calls |-> <<r.call>>,
         raised |-> r.raised]

\* a bug: the answer replaces the transcript instead of extending it
turn_cycle_overwrite(msgs, message, context, path, topic, o) ==
    LET appended == <<user_turn(message)>>
        r == get_ai_response(message, context, path, topic, appended, FALSE, o)
    IN  [messages |-> IF r.raised THEN r.chat_history
                      ELSE Append(r.chat_history, assistant_turn(r.value)),
         api_calls |-> <<r.call>>,
         raised |-> r.raised]

\* messages.append(user); response = get_ai_response(..., messages, False);
\* messages.append(assistant)
turn_cycle(msgs, message, context, path, topic, o) ==
    LET appended == Append(msgs, user_turn(message))
        r == get_ai_response(message, context, path, topic, appended, FALSE, o)
    IN  [messages |-> IF r.raised THEN r.chat_history
                      ELSE Append(r.chat_history, assistant_turn(r.value)),
         api_calls |-> <<r.call>>,
         raised |-> r.raised]

\* a bug: the comparison with previous_topic is missing
auto_explain_due_always(topic, prev) ==
    topic # NoTopic


auto_explain_due(topic, prev) ==
    topic # NoTopic /\ topic # prev

\* a bug: previous_topic is not updated
auto_explain_forgets(msgs, prev, path, topic, o) ==
    IF auto_explain_due(topic, prev)
    THEN LET c == turn_cycle(msgs, explain_question(topic, path),
                             topic_context(path, "Specific topic", topic),
                             path, topic, o)
         IN  [messages |-> c.messages, previous_topic |-> prev,
              api_calls |-> c.api_calls, raised |-> c.raised, fired |-> TRUE]
    ELSE [messages |-> msgs, previous_topic |-> prev, api_calls |-> <<>>,
          raised |-> FALSE, fired |-> FALSE]

\* lines 206-233; `fired` tells whether the branch was taken
auto_explain(msgs, prev, path, topic, o) ==
    IF auto_explain_due(topic, prev)
    THEN LET c == turn_cycle(msgs, explain_question(topic, path),
                             topic_context(path, "Specific topic", topic),
                             path, topic, o)
         IN  [messages |-> c.messages,
              previous_topic |-> IF c.raised THEN prev ELSE topic,
              api_calls |-> c.api_calls, raised |-> c.raised, fired |-> TRUE]
    ELSE [messages |-> msgs, previous_topic |-> prev, api_calls |-> <<>>,
          raised |-> FALSE, fired |-> FALSE]

learn_more(msgs, path, topic, o) ==
    turn_cycle(msgs, more_question(topic),
               topic_context(path, "Advanced topic", topic), path, topic, o)

quiz_mc(msgs, path, topic, o) ==
    turn_cycle(msgs, quiz_mc_question(topic, path),
               topic_context(path, "Quiz topic", topic), path, topic, o)

quiz_sa(msgs, path, topic, o) ==
    turn_cycle(msgs, quiz_sa_question(topic, path),
               topic_context(path, "Quiz topic", topic), path, topic, o)

chat_input(msgs, path, prompt, o) ==
    turn_cycle(msgs, prompt, path_context(path), path, "", o)

\* a bug: the reset also forgets the explained topic
clear_chat_resets(msgs, prev) ==
    [messages |-> <<>>, previous_topic |-> NoTopic, api_calls |-> <<>>,
     raised |-> FALSE]

\* st.session_state.messages = []; previous_topic is not touched
clear_chat(msgs, prev) ==
    [messages |-> <<>>, previous_topic |-> prev, api_calls |-> <<>>,
     raised |-> FALSE]

\* a bug: Continue runs the ordinary turn cycle and records its request
continue_click_as_ask(msgs, i, path, o) ==
    LET appended == Append(msgs, user_turn(continuation_prompt(msgs[i].content)))
        r == get_ai_response(continuation_prompt(msgs[i].content),
                             path_context(path), path, "", appended, TRUE, o)
    IN  [messages |-> IF r.raised THEN r.chat_history
                      ELSE Append(r.chat_history, assistant_turn(r.value)),
         api_calls |-> <<r.call>>,
         raised |-> r.raised]

\* a bug: the continuation is merged into the incomplete turn
continue_click_merge(msgs, i, path, o) ==
    LET r == get_ai_response(continuation_prompt(msgs[i].content),
                             path_context(path), path, "", msgs, TRUE, o)
    IN  [messages |-> IF r.raised THEN r.chat_history
                      ELSE [r.chat_history EXCEPT
                              ![i] = assistant_turn(msgs[i].content \o r.value)],
         api_calls |-> <<r.call>>,
         raised |-> r.raised]

\* the Continue button of message i: no user turn is appended
continue_click(msgs, i, path, o) ==
    LET r == get_ai_response(continuation_prompt(msgs[i].content),
                             path_context(path), path, "", msgs, TRUE, o)
    IN  [messages |-> IF r.raised THEN r.chat_history
                      ELSE Append(r.chat_history, assistant_turn(r.value)),
         api_calls |-> <<r.call>>,
         raised |-> r.raised]

----------------------------------------------------------------------------
(* One script run per user interaction *)

Clicks == {"select_path", "select_topic", "learn_more", "quiz_mc", "quiz_sa",
           "clear", "continue", "ask"}

\* a handler that leaves previous_topic alone
keeps(prev, h) ==
    [messages |-> h.messages, previous_topic |-> prev,
     api_calls |-> h.api_calls, raised |-> h.raised]

\* the handler the click reaches, once the sidebar has been evaluated
handler(click, arg, msgs, prev, path, topic, o) ==
    CASE click = "learn_more" -> keeps(prev, learn_more(msgs, path, topic, o))
      [] click = "quiz_mc"    -> keeps(prev, quiz_mc(msgs, path, topic, o))
      [] click = "quiz_sa"    -> keeps(prev, quiz_sa(msgs, path, topic, o))
      [] click = "clear"      -> clear_chat(msgs, prev)
      [] click = "continue"   -> keeps(prev, continue_click(msgs, arg, path, o))
      [] click = "ask"        -> keeps(prev, chat_input(msgs, path, arg, o))
      [] OTHER                -> [messages |-> msgs, previous_topic |-> prev,
                                  api_calls |-> <<>>, raised |-> FALSE]

\* The run the interaction triggers, top to bottom: the auto-explain test
\* comes first and, when taken, ends the run with st.rerun(); otherwise the
\* clicked widget's handler runs and ends with st.rerun() (a selectbox change
\* has no handler and no st.rerun()).
first_run(msgs, prev, path, topic, click, arg, o) ==
    LET a == auto_explain(msgs, prev, path, topic, o)
        h == handler(click, arg, msgs, prev, path, topic, o)
    IN  IF a.fired
        THEN [messages |-> a.messages, previous_topic |-> a.previous_topic,
              api_calls |-> a.api_calls, raised |-> a.raised,
              event |-> "auto_explain", reruns |-> ~a.raised]
        ELSE [messages |-> h.messages, previous_topic |-> h.previous_topic,
              api_calls |-> h.api_calls, raised |-> h.raised,
              event |-> click,
              reruns |-> ~h.raised /\ click \notin {"select_path", "select_topic"}]

\* The run started by st.rerun(): no widget is clicked, and the auto-explain
\* test is evaluated again on the session the first run left.
rerun(first, path, topic, o2) ==
    LET again == auto_explain(first.messages, first.previous_topic, path, topic, o2)
    IN  IF ~first.reruns THEN first
        ELSE [messages |-> again.messages, previous_topic |-> again.previous_topic,
              api_calls |-> first.api_calls \o again.api_calls,
              raised |-> again.raised, event |-> first.event, reruns |-> again.fired]

\* the widgets whose handler calls get_ai_response
CallingClicks == {"learn_more", "quiz_mc", "quiz_sa", "continue", "ask"}

\* One interaction.  An answer of the service is drawn for each call that is
\* made: o for the first run's call, o2 for a call made by the rerun.
Do(path, topic, click, arg) ==
    \E o \in (IF auto_explain_due(topic, previous_topic) \/ click \in CallingClicks
              THEN Outcomes ELSE {[ok |-> TRUE, text |-> ""]}) :
      \E first \in {first_run(messages, previous_topic, path, topic, click, arg, o)} :
          \E o2 \in (IF first.reruns /\ auto_explain_due(topic, first.previous_topic)
                     THEN Outcomes ELSE {o}) :
            \E s \in {rerun(first, path, topic, o2)} :
                /\ Len(s.messages) <= MaxMessages
                /\ selected_path' = path
                /\ selected_topic' = topic
                /\ messages' = s.messages
                /\ previous_topic' = s.previous_topic
                /\ api_calls' = s.api_calls
                /\ event' = s.event
                /\ continue_buttons' = IF s.raised THEN {} ELSE render(s.messages)

Prompts == {"What is variance?"}

Init ==
    /\ selected_path = NoPath
    /\ selected_topic = NoTopic
    /\ previous_topic = NoTopic
    /\ messages = <<>>
    /\ continue_buttons = {}
    /\ api_calls = <<>>
    /\ event = "start"

\* a bug: the topic chosen under the old path is kept
topic_selectbox_keeps(path, old_path, current) ==
    current

\* The value of the topic selectbox in the run after the path selectbox
\* changed from old_path to path.  The widget is built from the new path's
\* topic names (none is built for "Select a path..."); it is the same
\* widget, and keeps its value, only when the option list is the same, and
\* otherwise shows its first option.
topic_selectbox(path, old_path, current) ==
    IF /\ path # NoPath
       /\ old_path # NoPath
       /\ path_topics(path) = path_topics(old_path)
    THEN current
    ELSE NoTopic

SelectPath ==
    \E p \in path_options \ {selected_path} :
        Do(p, topic_selectbox(p, selected_path, selected_topic), "select_path", "")

SelectTopic ==
    /\ selected_path # NoPath
    /\ \E t \in topic_options(selected_path) \ {selected_topic} :
        Do(selected_path, t, "select_topic", "")

LearnMore ==
    /\ selected_topic # NoTopic
    /\ Do(selected_path, selected_topic, "learn_more", "")

QuizMultipleChoice ==
    /\ selected_topic # NoTopic
    /\ Do(selected_path, selected_topic, "quiz_mc", "")

QuizShortAnswer ==
    /\ selected_topic # NoTopic
    /\ Do(selected_path, selected_topic, "quiz_sa", "")

ClearChat ==
    Do(selected_path, selected_topic, "clear", "")

Continue ==
    \E i \in continue_buttons :
        Do(selected_path, selected_topic, "continue", i)

Ask ==
    \E prompt \in Prompts :
        Do(selected_path, selected_topic, "ask", prompt)

Next ==
    \/ SelectPath
    \/ SelectTopic
    \/ LearnMore
    \/ QuizMultipleChoice
    \/ QuizShortAnswer
    \/ ClearChat
    \/ Continue
    \/ Ask

Spec == Init /\ [][Next]_vars

----------------------------------------------------------------------------
(* The classification of a completion text: a fresh session asks once and   *)
(* the service answers with any text over Alphabet of at most MaxTextLen    *)
(* characters, or with one of the documented examples.                      *)

Alphabet == {"a", ".", "!", "?", ":", ";", "\"", "(", ")", " ", "\n"}

RECURSIVE Strings(_)
Strings(n) ==
    IF n = 0 THEN {""}
    ELSE LET shorter == Strings(n - 1)
         IN  shorter \cup {s \o c : s \in shorter, c \in Alphabet}

Examples == {"Explain variance...", "He said \"hello", "See the formula (",
             "Risk is subjective", "Variance measures spread."}

Texts == Strings(MaxTextLen) \cup Examples

\* Do with the service's answer fixed to the text t
DoText(prompt, t) ==
    \E o \in {[ok |-> TRUE, text |-> t]} :
    \E s \in {rerun(first_run(messages, previous_topic, selected_path,
                              selected_topic, "ask", prompt, o),
                    selected_path, selected_topic, o)} :
        /\ messages' = s.messages
        /\ previous_topic' = s.previous_topic
        /\ api_calls' = s.api_calls
        /\ event' = s.event
        /\ continue_buttons' = IF s.raised THEN {} ELSE render(s.messages)
        /\ UNCHANGED <<selected_path, selected_topic>>

AskText ==
    /\ messages = <<>>
    /\ \E prompt \in Prompts, t \in Texts : DoText(prompt, t)

NextText ==
    \/ AskText
    \/ ClearChat

SpecText == Init /\ [][NextText]_vars

----------------------------------------------------------------------------
(* Properties *)

Last(seq) == seq[Len(seq)]

startswith(s, prefix) ==
    /\ Len(s) >= Len(prefix)
    /\ SubSeq(s, 1, Len(prefix)) = prefix

\* the history part of a request: what lies between the system prompt and
\* the live user message
History(call) == SubSeq(call.sent, 2, Len(call.sent) - 1)

\* the live user message of a request
Live(call) == Last(call.sent)

AskEvents == {"ask", "auto_explain", "learn_more", "quiz_mc", "quiz_sa"}

\* the request text each ask-type action is to carry, from the selection
\* the action runs with
Request(ev, path, topic) ==
    CASE ev = "auto_explain" ->
           {"Please briefly explain " \o topic \o " in the context of " \o path \o "."}
      [] ev = "learn_more" ->
           {"Can you teach me more advanced concepts about " \o topic
            \o "? Give me deeper insights and practical applications."}
      [] ev = "quiz_mc" ->
           {"Give me a multiple choice quiz question about " \o topic
            \o " in the context of " \o path \o ". Provide one question with 4 options (A, B, C, D) and indicate the correct answer."}
      [] ev = "quiz_sa" ->
           {"Give me a short answer quiz question about " \o topic
            \o " in the context of " \o path \o ". Ask one thought-provoking question that requires a brief explanation."}
      [] OTHER -> Prompts

\* C1: every ask-type action (free-form ask, auto-explain, learn-more, the
\* two quizzes) extends the transcript by exactly two turns, the user turn
\* with the request and then the assistant turn with the gateway's result,
\* and keeps every earlier turn in place.
C1_AskAppendsTwoTurns ==
    [][event' \in AskEvents =>
         /\ Len(api_calls') = 1
         /\ Live(api_calls'[1]).content \in Request(event', selected_path', selected_topic')
         /\ messages' = messages \o <<user_turn(Live(api_calls'[1]).content),
                                      assistant_turn(api_calls'[1].result)>>]_vars

C1_Witness ==
    /\ event = "quiz_sa"
    /\ Len(messages) = 6
    /\ messages[5].role = "user"
    /\ messages[6].role = "assistant"

\* C2: in every ask-type action the history sent is the window of the
\* transcript as it was before the new user turn was appended, so the
\* request holds the new message once, as the live turn.
C2_HistoryIsWindowBeforeAppend ==
    [][event' \in AskEvents =>
         /\ Len(api_calls') = 1
         /\ History(api_calls'[1]) = recent_history(messages)]_vars

\* C3: Continue on a transcript ending with an incomplete assistant turn of
\* content c asks 'Please complete this incomplete sentence and continue:
\* "c"' and appends the result as one new assistant turn; the incomplete
\* turn and every earlier turn stay as they were.
C3_ContinueAppendsOneTurn ==
    [][event' = "continue" =>
         /\ Len(messages) > 0
         /\ Len(api_calls') = 1
         /\ Live(api_calls'[1]) =
              user_turn("Please complete this incomplete sentence and continue: \""
                        \o Last(messages).content \o "\"")
         /\ messages' = Append(messages, assistant_turn(api_calls'[1].result))]_vars

C3_Witness ==
    /\ event = "continue"
    /\ Len(messages) = 3
    /\ messages[2] = assistant_turn("Probability is the...")
    /\ messages[3].role = "assistant"

Eligible(msgs) ==
    /\ Len(msgs) > 0
    /\ Last(msgs).role = "assistant"
    /\ is_incomplete(Last(msgs).content)

\* C4: a continuation is performed only when the last turn is an incomplete
\* assistant turn; on any other transcript no Continue is available, so no
\* gateway call and no transcript change come of it, and no turn but the
\* last is ever offered one.
C4_ContinueOnlyWhenEligible ==
    [][/\ event' = "continue" => Eligible(messages)
       /\ continue_buttons' \subseteq {Len(messages')}
       /\ ~Eligible(messages') => continue_buttons' = {}]_vars

C4_Witness ==
    /\ event = "continue"
    /\ Len(messages) >= 3
    /\ ~Eligible(messages)
    /\ continue_buttons = {}

\* C5: when the completion service fails, get_ai_response raises nothing and
\* returns "Error: Unable to get AI response." followed by the failure
\* detail, and the calling action appends that string as an assistant turn.
C5_FailureBecomesAssistantTurn ==
    \A k \in 1..Len(api_calls) :
        api_calls[k].failed =>
            /\ startswith(api_calls[k].result, "Error: Unable to get AI response.")
            /\ \E detail \in Failures :
                 /\ endswith(api_calls[k].result, detail)
                 /\ Len(api_calls[k].result) >= 33 + Len(detail)
            /\ Len(messages) > 0
            /\ Last(messages) = assistant_turn(api_calls[k].result)

C5_Witness ==
    /\ Len(api_calls) = 1
    /\ api_calls[1].failed
    /\ event = "continue"

\* C6: after any sequence of completed actions, whatever the gateway did,
\* the transcript is empty or ends with an assistant turn.
C6_NoDanglingUserTurn ==
    messages = <<>> \/ Last(messages).role = "assistant"

C6_Witness ==
    /\ Len(api_calls) = 1
    /\ api_calls[1].failed
    /\ event = "ask"
    /\ Len(messages) = 4
    /\ messages[3].role = "user"

\* the number of quotation marks in a text
RECURSIVE quotes(_)
quotes(text) ==
    IF Len(text) = 0 THEN 0
    ELSE (IF SubSeq(text, 1, 1) = "\"" THEN 1 ELSE 0)
         + quotes(SubSeq(text, 2, Len(text)))

\* the last character, "" for the empty text
last_char(text) == IF Len(text) = 0 THEN "" ELSE SubSeq(text, Len(text), Len(text))

\* text without its trailing spaces, tabs and newlines
RECURSIVE trimmed(_)
trimmed(text) ==
    IF last_char(text) \in {" ", "\t", "\n"}
    THEN trimmed(SubSeq(text, 1, Len(text) - 1))
    ELSE text

\* the rule as the specification words it
Incomplete(text) ==
    \/ Len(text) >= 3 /\ SubSeq(text, Len(text) - 2, Len(text)) = "..."
    \/ last_char(text) = "\"" /\ quotes(text) % 2 = 1
    \/ last_char(text) = "("
    \/ last_char(trimmed(text)) \notin {".", "!", "?", ":", ";"}

\* C7: a text is classified incomplete exactly when it ends with "...", or
\* with an unclosed quotation mark, or with an unclosed opening parenthesis,
\* or, once trailing whitespace is trimmed, does not end with one of
\* . ! ? : ; -- so the four documented incomplete examples are incomplete
\* and 'Variance measures spread.' is complete.
C7_IncompleteRule ==
    /\ messages # <<>> =>
         /\ Last(messages).role = "assistant"
         /\ (Len(messages) \in continue_buttons) <=> Incomplete(Last(messages).content)
    /\ \A text \in {"Explain variance...", "He said \"hello", "See the formula (",
                    "Risk is subjective"} :
         (messages # <<>> /\ Last(messages).content = text)
            => Len(messages) \in continue_buttons
    /\ (messages # <<>> /\ Last(messages).content = "Variance measures spread.")
         => continue_buttons = {}

C7_Witness ==
    /\ Len(messages) = 2
    /\ messages[2] = assistant_turn("a. \n")
    /\ continue_buttons = {}

\* least of two numbers
Min(a, b) == IF a <= b THEN a ELSE b

IsSuffix(h, t) ==
    Len(h) <= Len(t) /\ h = SubSeq(t, Len(t) - Len(h) + 1, Len(t))

IsPrefix(h, t) ==
    Len(h) <= Len(t) /\ h = SubSeq(t, 1, Len(h))

\* C8: the windowed history of a transcript t is the suffix of t made of its
\* last min(Len(t), 4) turns, in order, and t is left as it was by the
\* windowing and by building the request from it.
C8_WindowIsSuffix ==
    \A k \in 1..Len(api_calls) :
        LET t == api_calls[k].chat_history
            h == History(api_calls[k])
        IN  /\ Len(h) = Min(Len(t), 4)
            /\ IsSuffix(h, t)
            /\ IsPrefix(t, messages)

C8_Witness ==
    /\ Len(api_calls) = 1
    /\ Len(api_calls[1].chat_history) = 5
    /\ Len(History(api_calls[1])) = 4

\* C9: selecting a path P and then a topic T of P that differs from
\* previous_topic triggers exactly one auto-explain request 'Please briefly
\* explain T in the context of P.'; the transcript gains exactly two turns
\* and previous_topic becomes T.
C9_TopicSelectionAutoExplains ==
    [][(/\ selected_topic' # selected_topic
        /\ selected_topic' # NoTopic
        /\ selected_topic' # previous_topic) =>
         /\ selected_path' = selected_path
         /\ selected_topic' \in Elems(path_topics(selected_path))
         /\ event' = "auto_explain"
         /\ Len(api_calls') = 1
         /\ Live(api_calls'[1]).content =
              "Please briefly explain " \o selected_topic'
              \o " in the context of " \o selected_path \o "."
         /\ Len(messages') = Len(messages) + 2
         /\ messages'[Len(messages) + 1] = user_turn(Live(api_calls'[1]).content)
         /\ previous_topic' = selected_topic']_vars

C9_Witness ==
    /\ event = "auto_explain"
    /\ selected_path = "Probability & Statistics"
    /\ selected_topic = "Events and probabilities"
    /\ previous_topic = "Events and probabilities"
    /\ Len(messages) = 2
    /\ messages[1] = user_turn("Please briefly explain Events and probabilities in the context of Probability & Statistics.")

\* C10: Clear Chat empties the transcript and leaves the selection (path,
\* topic, previous_topic) as it was; with a topic still selected the run
\* that follows issues no auto-explain, so the transcript stays empty.
C10_ClearKeepsSelection ==
    [][event' = "clear" =>
         /\ messages' = <<>>
         /\ api_calls' = <<>>
         /\ continue_buttons' = {}
         /\ UNCHANGED <<selected_path, selected_topic, previous_topic>>]_vars

C10_Witness ==
    /\ event = "clear"
    /\ messages = <<>>
    /\ selected_topic # NoTopic
    /\ previous_topic = selected_topic

\* C11: every assistant turn of the transcript has a user turn somewhere
\* before it; a transcript that is not empty starts with a user turn.
C11_AssistantAfterUser ==
    /\ \A i \in 1..Len(messages) :
         messages[i].role = "assistant" =>
             \E j \in 1..(i - 1) : messages[j].role = "user"
    /\ messages # <<>> => messages[1].role = "user"

C11_Witness ==
    /\ event = "continue"
    /\ Len(messages) = 4
    /\ \A i \in 2..4 : messages[i].role = "assistant"

\* C12: no turn of the transcript has empty content, whatever string the
\* completion service returns and whatever the user submits.
C12_NoEmptyContent ==
    \A i \in 1..Len(messages) : messages[i].content # ""

\* C13: the selected topic is unset or one of the selected path's topics,
\* also right after the path is changed while a topic is selected.
C13_TopicBelongsToPath ==
    \/ selected_topic = NoTopic
    \/ /\ selected_path # NoPath
       /\ \E i \in 1..Len(learning_paths) :
            /\ learning_paths[i].name = selected_path
            /\ \E j \in 1..Len(learning_paths[i].topics) :
                 learning_paths[i].topics[j] = selected_topic

C13_Witness ==
    /\ event = "select_path"
    /\ selected_path = "Machine Learning"
    /\ previous_topic = "Events and probabilities"
    /\ selected_topic = NoTopic

\* C14: auto-explain fires exactly when the selected topic is set and
\* differs from previous_topic; selecting the topic that previous_topic
\* already names (after deselecting it, or after any other action) appends
\* no turn and makes no gateway call.
C14_AutoExplainSuppressed ==
    [][/\ event' = "auto_explain" <=>
            (selected_topic' # NoTopic /\ selected_topic' # previous_topic)
       /\ (selected_topic' # NoTopic /\ selected_topic' = previous_topic) =>
            \A k \in 1..Len(api_calls') :
                ~startswith(Live(api_calls'[k]).content, "Please briefly explain ")
       /\ (/\ selected_topic' # selected_topic
           /\ selected_topic' # NoTopic
           /\ selected_topic' = previous_topic) =>
            /\ messages' = messages
            /\ api_calls' = <<>>]_vars

C14_Witness ==
    /\ event = "select_topic"
    /\ selected_topic = "Regression"
    /\ previous_topic = "Regression"
    /\ Len(messages) = 2

\* TRUE when `part` occurs somewhere in `text`
Contains(text, part) ==
    \E i \in 1..(Len(text) - Len(part) + 1) :
        SubSeq(text, i, i + Len(part) - 1) = part

\* C15 as claimed: Continue runs the ask turn-cycle, so the continuation
\* request is recorded as a user turn, followed by the assistant turn that
\* holds the continuation.
C15_ContinueIsAskCycle ==
    [][event' = "continue" =>
         messages' = messages \o <<user_turn(Live(api_calls'[1]).content),
                                   assistant_turn(api_calls'[1].result)>>]_vars

\* C15 as amended: Continue calls the gateway with is_continuation = True
\* (the system prompt carries the continuation instruction) and records
\* only the answer: the continuation request is the live message of the
\* request and appears in no turn of the transcript; the new last turn is
\* the assistant turn that holds the continuation, right after the
\* incomplete one.
C15_ContinueRecordsOnlyAnswer ==
    [][event' = "continue" =>
         /\ Len(api_calls') = 1
         /\ Contains(api_calls'[1].sent[1].content,
                     "IMPORTANT: You are continuing from an incomplete sentence.")
         /\ Len(messages') = Len(messages) + 1
         /\ Last(messages') = assistant_turn(api_calls'[1].result)
         /\ messages'[Len(messages)].role = "assistant"
         /\ \A i \in 1..Len(messages') :
              messages'[i].content # Live(api_calls'[1]).content]_vars

C15_Witness ==
    /\ event = "continue"
    /\ Len(messages) = 3
    /\ Len(api_calls) = 1
    /\ ~api_calls[1].failed
    /\ messages[3] = assistant_turn("Variance measures spread.")

\* the assistant turns among the turns of msgs from index `from` on
NewAssistantTurns(msgs, from) ==
    {i \in from..Len(msgs) : msgs[i].role = "assistant"}

\* C16: an action that produces an assistant turn makes exactly one call to
\* the completion service, whether the call succeeds or fails; a failure is
\* not retried, and no call is made outside such an action.
C16_OneCallPerAction ==
    [][/\ Len(api_calls') <= 1
       /\ Len(messages') > Len(messages) =>
            /\ Len(api_calls') = 1
            /\ Cardinality(NewAssistantTurns(messages', Len(messages) + 1)) = 1
            /\ Last(messages') = assistant_turn(api_calls'[1].result)
       /\ Len(messages') <= Len(messages) => api_calls' = <<>>]_vars

C16_Witness ==
    /\ event = "learn_more"
    /\ Len(api_calls) = 1
    /\ api_calls[1].failed
    /\ Last(messages).content = "Error: Unable to get AI response. Connection error."

\* runs of whitespace appended to a text
WhitespaceRuns == {" ", "\n", "\t", "  ", " \n"}

\* the Continue button is on the page for the last turn
Offered == messages # <<>> /\ Len(messages) \in continue_buttons

\* C17 as claimed: the classification of a text does not depend on trailing
\* whitespace: text followed by a run of whitespace is classified as text is.
C17_TrailingWhitespaceIgnored ==
    messages # <<>> =>
        \A w \in WhitespaceRuns :
            is_incomplete(Last(messages).content \o w) <=> Offered

\* C17 as amended: a text followed by a run of whitespace is classified as
\* the text is, unless the text ends with "..."; a text ending with "..."
\* is incomplete, and followed by whitespace it is complete.
C17_TrailingWhitespaceExceptEllipsis ==
    messages # <<>> =>
        \A w \in WhitespaceRuns :
            IF endswith(Last(messages).content, "...")
            THEN Offered /\ ~is_incomplete(Last(messages).content \o w)
            ELSE is_incomplete(Last(messages).content \o w) <=> Offered

C17_Witness ==
    /\ Len(messages) = 2
    /\ messages[2] = assistant_turn("... ")
    /\ continue_buttons = {}

\* C18: previous_topic is changed only by an auto-explain, which sets it to
\* the topic just explained; free-form ask, learn-more, the quizzes,
\* Continue, Clear, deselecting the topic and changing the path leave it.
C18_PreviousTopicOnlyByAutoExplain ==
    [][/\ previous_topic' # previous_topic =>
            /\ event' = "auto_explain"
            /\ previous_topic' = selected_topic'
            /\ Len(api_calls') = 1
            /\ startswith(Live(api_calls'[1]).content,
                          "Please briefly explain " \o previous_topic' \o " in the context of ")
       /\ event' # "auto_explain" => previous_topic' = previous_topic]_vars

C18_Witness ==
    /\ event = "clear"
    /\ selected_path = NoPath
    /\ previous_topic = "Regression"

\* C19: every request sent to the completion service has at most 6
\* messages: the system prompt first, then at most 4 history turns in
\* transcript order, then the live user message last.
C19_RequestAtMostSix ==
    \A k \in 1..Len(api_calls) :
        LET sent == api_calls[k].sent
        IN  /\ Len(sent) >= 2
            /\ Len(sent) <= 6
            /\ sent[1].role = "system"
            /\ Last(sent).role = "user"
            /\ \A i \in 2..(Len(sent) - 1) : sent[i].role \in {"user", "assistant"}
            /\ Len(History(api_calls[k])) <= 4
            /\ \E first \in 1..(Len(messages) + 1) :
                 \A i \in 1..Len(History(api_calls[k])) :
                     /\ first + i - 1 <= Len(messages)
                     /\ History(api_calls[k])[i] = messages[first + i - 1]

C19_Witness ==
    /\ Len(api_calls) = 1
    /\ Len(api_calls[1].sent) = 6
    /\ Len(messages) = 6
    /\ event = "continue"

====
